---- MODULE Spec2Model ----
(***************************************************************************)
(* Model of the detray navigator (navigator::state, navigator::init,       *)
(* navigator::update and its helpers), of the intersectors it calls and of *)
(* a small detector it navigates.                                          *)
(*                                                                         *)
(* Geometry of the model: the track lives on one radial axis (pos) with a  *)
(* lateral coordinate (lat) that decides the mask check.  Volume 0 is the  *)
(* region |pos| < 2, volume 1 the shell 2 < |pos| < 4.  Path lengths are   *)
(* integers; the tolerances of navigation::config are scaled to integers   *)
(* with the same signs and the same ordering as the defaults.              *)
(***************************************************************************)
EXTENDS Integers, Sequences, FiniteSets, TLC

\* ------------------------------------------------------------------ bounds
MaxPos == 4
MaxLat == 1
\* number of module planes of the telescope
NPlanes == 5
\* largest number of bins of a grid axis
MaxBins == 3
\* number of reports of the object tracer after which the guided loop
\* through the toy detector is no longer followed
MaxReports == 8

\* The track points along the positive axis; the stepper may place it at any
\* position, before or behind the surfaces.
Positions == 0..MaxPos
Lats == 0..MaxLat
Dirs == {1}

\* ------------------------------------------------- navigation::trust_level
e_no_trust == 0
e_fair == 1
e_high == 3
e_full == 4
TrustLevels == {e_no_trust, e_fair, e_high, e_full}

\* ------------------------------------------------------ navigation::status
StatusValues ==
    {"abort", "on_target", "unknown", "towards_object", "on_module",
     "on_portal"}

\* ------------------------------------------------------ navigation::config
mask_tolerance == 1
on_surface_tolerance == 1
overstep_tolerance == 0 - 2

\* std::numeric_limits<scalar_type>::max(), the path of an invalidated record
numeric_max == 99
\* detail::invalid_value<...>(): invalid volume link / invalid barcode
invalid_value == 255

\* ---------------------------------------------------------------- detector
\* Surface descriptors with their mask and placement.
\*   z    : position of a plane / wire on the axis
\*   r    : radius of a cylinder portal (centred on pos = 0)
\*   zd   : projection of the wire direction on the track direction
\*   half : half extent of the mask in the lateral coordinate
ToySurfaces ==
    << [volume |-> 0, is_portal |-> FALSE, shape |-> "plane", z |-> 1,
        r |-> 0, zd |-> 0, half |-> 0, volume_link |-> 0],
       [volume |-> 0, is_portal |-> FALSE, shape |-> "line", z |-> 0 - 2,
        r |-> 0, zd |-> 0, half |-> 0, volume_link |-> 0],
       [volume |-> 0, is_portal |-> TRUE, shape |-> "cylinder", z |-> 0,
        r |-> 2, zd |-> 0, half |-> 0, volume_link |-> 1],
       [volume |-> 1, is_portal |-> TRUE, shape |-> "cylinder", z |-> 0,
        r |-> 2, zd |-> 0, half |-> 0, volume_link |-> 0],
       [volume |-> 1, is_portal |-> TRUE, shape |-> "cylinder", z |-> 0,
        r |-> 4, zd |-> 0, half |-> 0, volume_link |-> invalid_value],
       [volume |-> 1, is_portal |-> FALSE, shape |-> "plane", z |-> 3,
        r |-> 0, zd |-> 0, half |-> 0, volume_link |-> 1],
       [volume |-> 1, is_portal |-> FALSE, shape |-> "line", z |-> 0 - 3,
        r |-> 0, zd |-> 1, half |-> 0, volume_link |-> 1] >>

\* The telescope: volume 2 holds NPlanes unbounded module planes, one every
\* telescope_pitch along the axis from position 0, and is closed by one portal
\* telescope_envelope behind the last plane that leads out of the detector.
telescope_pitch == 3
telescope_envelope == 3

TelescopeSurfaces ==
    [i \in 1..(NPlanes + 1) |->
        IF i <= NPlanes
        THEN [volume |-> 2, is_portal |-> FALSE, shape |-> "plane",
              z |-> (i - 1) * telescope_pitch, r |-> 0, zd |-> 0,
              half |-> numeric_max, volume_link |-> 2]
        ELSE [volume |-> 2, is_portal |-> TRUE, shape |-> "plane",
              z |-> (NPlanes - 1) * telescope_pitch + telescope_envelope,
              r |-> 0, zd |-> 0, half |-> numeric_max,
              volume_link |-> invalid_value]]

\* navigator::init reserves room for this many candidates
candidate_capacity == 20

\* A crowded volume: volume 3 holds one more module plane than the reserved
\* capacity, one every telescope_pitch from position 0, and the portal that
\* closes it.
CrowdedSurfaces ==
    [i \in 1..(candidate_capacity + 2) |->
        IF i <= candidate_capacity + 1
        THEN [volume |-> 3, is_portal |-> FALSE, shape |-> "plane",
              z |-> (i - 1) * telescope_pitch, r |-> 0, zd |-> 0,
              half |-> numeric_max, volume_link |-> 3]
        ELSE [volume |-> 3, is_portal |-> TRUE, shape |-> "plane",
              z |-> candidate_capacity * telescope_pitch +
                    telescope_envelope,
              r |-> 0, zd |-> 0, half |-> numeric_max,
              volume_link |-> invalid_value]]

\* A staggered volume: volume 4 holds a module plane, behind it a portal of
\* small lateral extent, behind that a second module plane and the portal
\* that closes the volume; a track displaced sideways misses the small portal
\* and still reaches what lies behind it.
StaggeredSurfaces ==
    << [volume |-> 4, is_portal |-> FALSE, shape |-> "plane", z |-> 1,
        r |-> 0, zd |-> 0, half |-> numeric_max, volume_link |-> 4],
       [volume |-> 4, is_portal |-> TRUE, shape |-> "plane", z |-> 2,
        r |-> 0, zd |-> 0, half |-> 0, volume_link |-> invalid_value],
       [volume |-> 4, is_portal |-> FALSE, shape |-> "plane", z |-> 3,
        r |-> 0, zd |-> 0, half |-> numeric_max, volume_link |-> 4],
       [volume |-> 4, is_portal |-> TRUE, shape |-> "plane", z |-> 4,
        r |-> 0, zd |-> 0, half |-> numeric_max,
        volume_link |-> invalid_value] >>

\* Two volumes whose portals do not match: volume 5 holds a module plane and
\* a wide portal into volume 6; volume 6 holds the wide portal back into
\* volume 5 and is closed by a portal of small lateral extent, which a track
\* displaced sideways does not see.
GapSurfaces ==
    << [volume |-> 5, is_portal |-> FALSE, shape |-> "plane", z |-> 1,
        r |-> 0, zd |-> 0, half |-> numeric_max, volume_link |-> 5],
       [volume |-> 5, is_portal |-> TRUE, shape |-> "plane", z |-> 2,
        r |-> 0, zd |-> 0, half |-> numeric_max, volume_link |-> 6],
       [volume |-> 6, is_portal |-> TRUE, shape |-> "plane", z |-> 2,
        r |-> 0, zd |-> 0, half |-> numeric_max, volume_link |-> 5],
       [volume |-> 6, is_portal |-> TRUE, shape |-> "plane", z |-> 4,
        r |-> 0, zd |-> 0, half |-> 0, volume_link |-> invalid_value] >>

Surfaces ==
    ToySurfaces \o TelescopeSurfaces \o CrowdedSurfaces \o
    StaggeredSurfaces \o GapSurfaces

SurfaceIds == 1..Len(Surfaces)
Volumes == {0, 1, 2, 3, 4, 5, 6}
\* the volume descriptors a read outside the detector is taken to yield
GarbageVolumes == {0, 1}

\* The surfaces the accelerators of a volume yield, in iteration order.  The
\* grid of volume 1 has surface 6 registered in two bins of the search window.
visit_neighborhood(vol) ==
    IF vol = 0 THEN <<1, 2, 3>>
    ELSE IF vol = 1 THEN <<4, 5, 6, 7, 6>>
    ELSE IF vol = 2
         THEN [i \in 1..(NPlanes + 1) |-> Len(ToySurfaces) + i]
         ELSE IF vol = 3
              THEN [i \in 1..Len(CrowdedSurfaces) |->
                       Len(ToySurfaces) + Len(TelescopeSurfaces) + i]
              ELSE IF vol = 4
                   THEN [i \in 1..Len(StaggeredSurfaces) |->
                            Len(ToySurfaces) + Len(TelescopeSurfaces) +
                            Len(CrowdedSurfaces) + i]
                   ELSE [i \in 1..2 |->
                            Len(ToySurfaces) + Len(TelescopeSurfaces) +
                            Len(CrowdedSurfaces) + Len(StaggeredSurfaces) +
                            2 * (vol - 5) + i]

\* ------------------------------------------------------------ intersection
default_intersection ==
    [path |-> numeric_max, status |-> "missed", sf |-> invalid_value,
     volume_link |-> invalid_value]

Abs(x) == IF x < 0 THEN 0 - x ELSE x
Min(a, b) == IF a <= b THEN a ELSE b
Max(a, b) == IF a <= b THEN b ELSE a

\* mask.is_inside(local, tolerance)
is_inside(lat, half, tol) ==
    IF lat <= half + tol THEN "inside" ELSE "outside"

\* plane_intersector::operator()
plane_intersector(track, s, mask_tol, overstep_tol) ==
    LET sf == Surfaces[s]
        path == (sf.z - track.pos) * track.dir
        st == is_inside(track.lat, sf.half, mask_tol)
    IN  IF path > overstep_tol
        THEN IF st = "inside"
             THEN [path |-> path, status |-> st, sf |-> s,
                   volume_link |-> sf.volume_link]
             ELSE [default_intersection EXCEPT !.path = path, !.status = st]
        ELSE [default_intersection EXCEPT !.path = path]

\* line_intersector::operator()
line_intersector(track, s, mask_tol, overstep_tol) ==
    LET sf == Surfaces[s]
        zd == sf.zd
        denom == 1 - (zd * zd)
        \* the wires of the model are perpendicular to the axis (zd = 0,
        \* denom = 1) or parallel to it (zd = 1, denom = 0)
        t2l_on_track == (sf.z - track.pos) * track.dir
        A == t2l_on_track
        st == is_inside(track.lat, sf.half, mask_tol)
    IN  IF denom < 1
        THEN [default_intersection EXCEPT !.status = "missed"]
        ELSE IF A >= overstep_tol
             THEN IF st = "inside"
                  THEN [path |-> A, status |-> st, sf |-> s,
                        volume_link |-> sf.volume_link]
                  ELSE [default_intersection EXCEPT !.path = A,
                                                    !.status = st]
             ELSE [default_intersection EXCEPT !.path = A]

\* cylinder_intersector::solve_intersection: the two roots of the quadratic
solve_intersection(track, s) ==
    LET sf == Surfaces[s]
        a == (0 - sf.r - track.pos) * track.dir
        b == (sf.r - track.pos) * track.dir
    IN  [solutions |-> 2, smaller |-> Min(a, b), larger |-> Max(a, b)]

\* cylinder_intersector::build_candidate
build_candidate(track, s, t, mask_tol) ==
    LET sf == Surfaces[s]
        st == is_inside(track.lat, sf.half, mask_tol)
    IN  IF st = "inside"
        THEN [path |-> t, status |-> st, sf |-> s,
              volume_link |-> sf.volume_link]
        ELSE [default_intersection EXCEPT !.path = t, !.status = st]

\* variant: the far root is taken whenever it is reachable
cylinder_portal_select_larger(qe, overstep_tol) ==
    IF qe.solutions > 0 /\ qe.larger > overstep_tol
    THEN qe.larger
    ELSE numeric_max

\* cylinder_portal_intersector::operator() on the solved quadratic qe
cylinder_portal_select(qe, overstep_tol) ==
    IF qe.solutions > 0 /\ qe.larger > overstep_tol
    THEN IF qe.smaller > overstep_tol THEN qe.smaller ELSE qe.larger
    ELSE numeric_max

cylinder_portal_intersector(track, s, mask_tol, overstep_tol) ==
    LET qe == solve_intersection(track, s)
    IN  IF qe.solutions > 0 /\ qe.larger > overstep_tol
        THEN [build_candidate(track, s,
                              cylinder_portal_select(qe, overstep_tol),
                              mask_tol) EXCEPT !.sf = s]
        ELSE [default_intersection EXCEPT !.status = "missed"]

\* surface::visit_mask: dispatch on the shape of the mask
visit_mask(track, s, mask_tol, overstep_tol) ==
    IF Surfaces[s].shape = "plane"
    THEN plane_intersector(track, s, mask_tol, overstep_tol)
    ELSE IF Surfaces[s].shape = "line"
         THEN line_intersector(track, s, mask_tol, overstep_tol)
         ELSE cylinder_portal_intersector(track, s, mask_tol, overstep_tol)

\* variant: portals get the mask tolerance of the modules
surface_mask_tol_uniform(s) == mask_tolerance

\* the mask tolerance handed to the intersector of surface s
surface_mask_tol(s) == IF Surfaces[s].is_portal THEN 0 ELSE mask_tolerance

\* intersection_initialize: the record is appended only when its status is
\* inside
intersection_initialize(is, candidates) ==
    IF is.status = "inside" THEN <<is>> \o candidates ELSE candidates

\* navigator::candidate_search over the surfaces of the neighbourhood
RECURSIVE candidate_search(_, _)
candidate_search(track, sfs) ==
    IF sfs = <<>>
    THEN <<>>
    ELSE intersection_initialize(
             visit_mask(track, Head(sfs), surface_mask_tol(Head(sfs)),
                        overstep_tolerance),
             candidate_search(track, Tail(sfs)))

\* intersection_update: the record is overwritten in place, the result tells
\* whether it is reachable
intersection_update(is) == [ok |-> (is.status = "inside"), rec |-> is]

\* navigator::update_candidate
update_candidate(rec, track) ==
    IF rec.sf = invalid_value
    THEN [ok |-> FALSE, rec |-> rec]
    ELSE intersection_update(
             visit_mask(track, rec.sf, surface_mask_tol(rec.sf),
                        overstep_tolerance))

\* -------------------------------------------------------------------- grid
\* A grid axis is [bounds, nbins]; a search window holds, per axis, the
\* first and the last bin index of the iota range.
AxisBounds == {"open", "circular"}
Axes == [bounds : AxisBounds, nbins : 1..MaxBins]

\* n_axis::circular::wrap
wrap(ibin, nbins) == (nbins + (ibin % nbins)) % nbins

\* variant: the index of a circular axis is passed on as it is
map_circular_axis_unwrapped(ax, index) == index

\* bin_iterator::map_circular for one axis
map_circular_axis(ax, index) ==
    IF ax.bounds = "circular" THEN wrap(index, ax.nbins) ELSE index

\* bin_iterator::map_circular over every axis of the grid
map_circular(axes, index_tuple) ==
    [I \in 1..Len(axes) |-> map_circular_axis(axes[I], index_tuple[I])]

\* multi_axis::bin_ranges for one axis: the window around bin b, clamped on
\* an open axis
bin_range(ax, b, w) ==
    IF ax.bounds = "circular"
    THEN [lower |-> b - w, upper |-> b + w]
    ELSE [lower |-> Max(0, b - w), upper |-> Min(ax.nbins - 1, b + w)]

\* the cartesian product of the iota ranges: begin, end and the neighbours
\* of a local bin index in lexicographic order
indexer_begin(win) == <<win[1].lower, win[2].lower>>
indexer_end(win) == <<win[1].upper + 1, win[2].lower>>
indexer_next(win, idx) ==
    IF idx[2] < win[2].upper
    THEN <<idx[1], idx[2] + 1>>
    ELSE <<idx[1] + 1, win[2].lower>>
indexer_prev(win, idx) ==
    IF idx[2] > win[2].lower
    THEN <<idx[1], idx[2] - 1>>
    ELSE <<idx[1] - 1, win[2].upper>>

\* ----------------------------------------------------- detail::sequential_sort
\* stable insertion sort by path
RECURSIVE insert_sorted(_, _)
insert_sorted(sorted, rec) ==
    IF sorted = <<>>
    THEN <<rec>>
    ELSE IF rec.path < Head(sorted).path
         THEN <<rec>> \o sorted
         ELSE <<Head(sorted)>> \o insert_sorted(Tail(sorted), rec)

RECURSIVE sort_prefix(_, _)
sort_prefix(seq, n) ==
    IF n = 0 THEN <<>> ELSE insert_sorted(sort_prefix(seq, n - 1), seq[n])

sequential_sort(seq) == sort_prefix(seq, Len(seq))

\* --------------------------------------------------------- navigator::state
\* A navigator state as a record.  The fields cache .. direction are the
\* members of navigator::state; the remaining fields describe the call in
\* progress:
\*   mem     : content of the memory slot behind the stored records, which a
\*             dereference of an iterator outside the vector reads
\*   gvol    : the volume whose descriptor an invalid volume index yields
\*   oob     : the call dereferenced an iterator outside the stored records
\*   reached : the record current() the portal branch of update has read
\*   outcome : the exit of init / update the call has taken
VARIABLES track, cache, next, last, status, trust_level, heartbeat,
          volume_index, direction,
          last_call, entry_trust, outcome, oob, reached, object_trace,
          bin_view, pair

nav_vars == <<cache, next, last, status, trust_level, heartbeat,
              volume_index, direction>>
call_vars == <<last_call, entry_trust, outcome, oob, reached>>
vars == <<track, cache, next, last, status, trust_level, heartbeat,
          volume_index, direction, last_call, entry_trust, outcome, oob,
          reached, object_trace, bin_view, pair>>
navigation_vars == <<track, cache, next, last, status, trust_level,
                     heartbeat, volume_index, direction, last_call,
                     entry_trust, outcome, oob, reached, object_trace>>

\* no bin view has been built
no_bin_view ==
    [axes |-> <<>>, window |-> <<>>, indexer |-> <<>>, lbin |-> <<>>]

\* stale records a read outside the stored range can yield
Garbage ==
    {default_intersection} \cup
    {[path |-> 0, status |-> "inside", sf |-> s,
      volume_link |-> Surfaces[s].volume_link] : s \in {1, 3, 5}}

CallState(g, gv) ==
    [cache |-> cache, next |-> next, last |-> last, status |-> status,
     trust_level |-> trust_level, heartbeat |-> heartbeat,
     volume_index |-> volume_index, direction |-> direction,
     mem |-> g, gvol |-> gv, oob |-> FALSE,
     reached |-> default_intersection, outcome |-> "none",
     trace |-> object_trace, inspect |-> FALSE, stray |-> FALSE]

\* the call state of a navigator built with the object tracer as inspector
TracedState == [CallState(default_intersection, 0) EXCEPT !.inspect = TRUE]

InCache(w, i) == i \in 1..Len(w.cache)

\* *itr for an iterator at index i
deref(w, i) == IF InCache(w, i) THEN w.cache[i] ELSE w.mem

\* *itr = rec
assign(w, i, rec) ==
    IF InCache(w, i)
    THEN [w EXCEPT !.cache[i] = rec]
    ELSE [w EXCEPT !.mem = rec, !.oob = TRUE, !.stray = TRUE]

touch(w, i) == IF InCache(w, i) THEN w ELSE [w EXCEPT !.oob = TRUE]

\* run_inspector: nothing with the void inspector; the object tracer keeps
\* the current surface whenever the status is on_module or on_portal
run_inspector(w) ==
    IF w.inspect /\ w.status \in {"on_module", "on_portal"}
    THEN [w EXCEPT !.trace = Append(@, [sf |-> deref(w, w.next - 1).sf,
                                        status |-> w.status])]
    ELSE w

\* navigator::state::n_candidates / is_exhausted / is_on_portal
n_candidates(w) == w.last - w.next
is_exhausted(w) == (w.last - w.next) <= 0
is_on_portal(w) == w.status = "on_portal"

\* variant: a record at the tolerance itself counts as reached
is_on_object_inclusive(candidate) ==
    Abs(candidate.path) <= on_surface_tolerance

\* navigator::state::is_on_object
is_on_object(candidate) == Abs(candidate.path) < on_surface_tolerance

\* sf_desc.is_portal() of a record
rec_is_portal(rec) ==
    IF rec.sf \in SurfaceIds THEN Surfaces[rec.sf].is_portal ELSE FALSE

\* navigator::state::set_no_trust / set_full_trust / set_high_trust /
\* set_fair_trust
set_no_trust(t) == e_no_trust
\* variant: assigns the requested level
set_full_trust_unconditional(t) == e_full
set_full_trust(t) == IF t <= e_full THEN t ELSE e_full
\* variant: assigns the requested level
set_high_trust_unconditional(t) == e_high
set_high_trust(t) == IF t <= e_high THEN t ELSE e_high
set_fair_trust(t) == IF t <= e_fair THEN t ELSE e_fair

\* variant: clear also resets the volume to the start volume
clear_resets_volume(w) ==
    [w EXCEPT !.cache = <<>>, !.next = 1, !.last = 1, !.volume_index = 0]

\* navigator::state::clear
clear(w) == [w EXCEPT !.cache = <<>>, !.next = 1, !.last = 1]

\* variant: abort also empties the cache
abort_clears(w) ==
    [clear(w) EXCEPT !.status = "abort", !.heartbeat = FALSE,
                     !.trust_level = e_full]

\* variant: the trust level is left as it was
abort_keeps_trust(w) ==
    [w EXCEPT !.status = "abort", !.heartbeat = FALSE]

\* navigator::state::abort
abort(w) ==
    [w EXCEPT !.status = "abort", !.heartbeat = FALSE,
              !.trust_level = e_full]

\* navigator::state::is_complete
is_complete(w) == w.status = "on_target" /\ ~w.heartbeat

\* variant: the candidates are left in the cache
exit_without_clear(w) ==
    [w EXCEPT !.status = "on_target", !.heartbeat = FALSE,
              !.trust_level = e_full]

\* navigator::state::exit
exit(w) ==
    clear([w EXCEPT !.status = "on_target", !.heartbeat = FALSE,
                    !.trust_level = e_full])

\* variant: the trust is lowered on exhaustion only, not on a portal
update_navigation_state_trusts_portal(w) ==
    LET w0 == touch(w, w.next)
        nx == deref(w, w.next)
        w1 == IF is_on_object(nx)
              THEN [w0 EXCEPT !.next = w.next + 1,
                              !.status = IF rec_is_portal(nx)
                                         THEN "on_portal"
                                         ELSE "on_module"]
              ELSE [w0 EXCEPT !.status = "towards_object"]
    IN  [w1 EXCEPT !.trust_level =
                       IF is_exhausted(w1) THEN e_no_trust ELSE e_full]

\* variant: the status is left as it was when the track is not on an object
update_navigation_state_no_else(w) ==
    LET w0 == touch(w, w.next)
        nx == deref(w, w.next)
        w1 == IF is_on_object(nx)
              THEN [w0 EXCEPT !.next = w.next + 1,
                              !.status = IF rec_is_portal(nx)
                                         THEN "on_portal"
                                         ELSE "on_module"]
              ELSE w0
    IN  [w1 EXCEPT !.trust_level =
                       IF is_exhausted(w1) \/ is_on_portal(w1)
                       THEN e_no_trust
                       ELSE e_full]

\* navigator::update_navigation_state
update_navigation_state(w) ==
    LET w0 == touch(w, w.next)
        nx == deref(w, w.next)
        w1 == IF is_on_object(nx)
              THEN [w0 EXCEPT !.next = w.next + 1,
                              !.status = IF rec_is_portal(nx)
                                         THEN "on_portal"
                                         ELSE "on_module"]
              ELSE [w0 EXCEPT !.status = "towards_object"]
    IN  [w1 EXCEPT !.trust_level =
                       IF is_exhausted(w1) \/ is_on_portal(w1)
                       THEN e_no_trust
                       ELSE e_full]

\* navigator::find_invalid: index of the first record with path = max
find_invalid(candidates) ==
    LET hits == {i \in 1..Len(candidates) :
                     candidates[i].path = numeric_max}
    IN  IF hits = {}
        THEN Len(candidates) + 1
        ELSE CHOOSE i \in hits : \A j \in hits : i <= j

\* variant: last is set one record before the end of the cache
init_cache_short_last(w, sorted) ==
    [w EXCEPT !.cache = sorted, !.next = 1, !.last = Max(1, Len(sorted))]

\* navigator::init, lines 664-670: the sorted candidates become the cache and
\* the cursors span all of it
init_cache(w, sorted) ==
    [w EXCEPT !.cache = sorted, !.next = 1, !.last = Len(sorted) + 1]

\* navigator::init, lines 673-679: the heartbeat is dropped when full trust
\* was not restored
init_heartbeat(w) ==
    IF w.trust_level # e_full THEN [w EXCEPT !.heartbeat = FALSE] ELSE w

\* navigator::init, lines 646-653: an invalid volume index reads a volume
\* descriptor outside the detector
init_clear(w) ==
    [clear(w) EXCEPT !.heartbeat = TRUE,
                     !.oob = (w.oob \/ w.volume_index \notin Volumes)]

init_volume(w) ==
    IF w.volume_index \in Volumes THEN w.volume_index ELSE w.gvol

\* variant: the heartbeat is not dropped when full trust was not restored
init_keeps_heartbeat(w, trk) ==
    run_inspector(
        update_navigation_state(
            init_cache(init_clear(w),
                       sequential_sort(
                           candidate_search(
                               trk, visit_neighborhood(init_volume(w)))))))

\* variant: the candidates are left in the order the search filled them
init_unsorted(w, trk) ==
    run_inspector(
        init_heartbeat(
            update_navigation_state(
                init_cache(init_clear(w),
                           candidate_search(
                               trk, visit_neighborhood(init_volume(w)))))))

\* navigator::init
init(w, trk) ==
    run_inspector(
        init_heartbeat(
            update_navigation_state(
                init_cache(init_clear(w),
                           sequential_sort(
                               candidate_search(
                                   trk,
                                   visit_neighborhood(init_volume(w))))))))

\* update_kernel, line 808-811: an unreachable record gets the largest path
invalidate(u) ==
    IF u.ok THEN u.rec ELSE [u.rec EXCEPT !.path = numeric_max]

\* update_kernel, lines 806-812: every record of [next, last) is re-intersected
update_all(w, trk) ==
    [i \in 1..Len(w.cache) |->
        IF i >= w.next /\ i < w.last
        THEN invalidate(update_candidate(w.cache[i], trk))
        ELSE w.cache[i]]

\* variant: the range is left in the order it had
sort_range_unsorted(c, lo, hi) == c

\* update_kernel, line 814: the records of [begin, end) are sorted
sort_range(c, lo, hi) ==
    IF lo < hi
    THEN SubSeq(c, 1, lo - 1) \o
         sequential_sort(SubSeq(c, lo, hi - 1)) \o
         SubSeq(c, hi, Len(c))
    ELSE c

\* update_kernel, lines 815-820: next stays at begin, last is set to the
\* first invalidated record, then the state is classified
fair_finish(w, c) ==
    run_inspector(
        update_navigation_state(
            [w EXCEPT !.cache = c, !.last = find_invalid(c),
                      !.oob = (w.oob \/ w.next > w.last)]))

\* navigator::update_kernel, fair trust branch
kernel_fair(w, trk) ==
    fair_finish(w, sort_range(update_all(w, trk), w.next,
                              Min(w.last, Len(w.cache) + 1)))

\* update_candidate(*navigation.next(), ...): the record at next is
\* overwritten with the result u
store_next(w, u) == assign(touch(w, w.next), w.next, u.rec)

\* variant: the call returns although the candidate is not reachable
high_ready_next_returns(w, u, trk) == store_next(w, u)

\* update_kernel, lines 794-801: the candidate after the module reached
high_ready_next(w, u, trk) ==
    IF u.ok
    THEN store_next(w, u)
    ELSE kernel_fair([store_next(w, u) EXCEPT
                          !.trust_level = set_fair_trust(w.trust_level)],
                     trk)

\* update_kernel, lines 784-796: after update_navigation_state
high_classified(w, trk) ==
    IF w.status = "towards_object" \/ w.trust_level = e_no_trust
    THEN w
    ELSE high_ready_next(w, update_candidate(deref(w, w.next), trk), trk)

\* update_kernel, lines 770-779: the record at next has been re-intersected
high_updated(w, u, trk) ==
    IF ~u.ok
    THEN [store_next(w, u) EXCEPT
              !.status = "unknown",
              !.trust_level = set_no_trust(w.trust_level)]
    ELSE high_classified(
             run_inspector(update_navigation_state(store_next(w, u))), trk)

\* variant: every record of the range is intersected again and sorted
kernel_high_refreshes_all(w, trk) == kernel_fair(w, trk)

\* navigator::update_kernel, high trust branch
kernel_high(w, trk) ==
    high_updated(w, update_candidate(deref(w, w.next), trk), trk)

\* variant: no early return at full trust, the volume is initialised again
update_kernel_reinit(w, trk) == init(w, trk)

\* navigator::update_kernel
update_kernel(w, trk) ==
    IF w.trust_level = e_full
    THEN w
    ELSE IF w.trust_level = e_high \/
            (n_candidates(w) = 1 /\ w.trust_level = e_high)
         THEN kernel_high(w, trk)
         ELSE IF w.trust_level = e_fair
              THEN kernel_fair(w, trk)
              ELSE init(w, trk)

\* variant: the volume index is left as it was
set_volume_skipped(w, cur) ==
    [touch(w, w.next - 1) EXCEPT !.reached = cur]

\* navigator::update, line 713: set_volume(current()->volume_link)
set_volume(w, cur) ==
    [touch(w, w.next - 1) EXCEPT !.volume_index = cur.volume_link,
                                 !.reached = cur]

\* variant: the trust is left as init set it in the new volume
volume_switch_keeps_trust(w, trk) ==
    IF w.volume_index = invalid_value
    THEN [exit(w) EXCEPT !.outcome = "exit"]
    ELSE [init(w, trk) EXCEPT !.heartbeat = TRUE, !.outcome = "switch"]

\* navigator::update, lines 715-729: exit, or initialise the new volume
volume_switch(w, trk) ==
    IF w.volume_index = invalid_value
    THEN [exit(w) EXCEPT !.outcome = "exit"]
    ELSE [init(w, trk) EXCEPT !.trust_level = e_full,
                              !.heartbeat = TRUE,
                              !.outcome = "switch"]

\* variant: the result of the re-initialisation is not checked
sanity_check_skipped(w) == [w EXCEPT !.outcome = "reinit"]

\* navigator::update, lines 735-741: sanity check after the re-initialisation
sanity_check(w) ==
    IF w.trust_level # e_full \/ is_exhausted(w)
    THEN [abort(w) EXCEPT !.outcome = "abort"]
    ELSE [w EXCEPT !.outcome = "reinit"]

\* navigator::update, lines 706-741: after update_kernel
update_dispatch(w, trk) ==
    IF w.trust_level = e_full
    THEN [w EXCEPT !.outcome = "full"]
    ELSE IF is_on_portal(w)
         THEN volume_switch(set_volume(w, deref(w, w.next - 1)), trk)
         ELSE sanity_check(init(w, trk))

\* navigator::update
update(w, trk) == update_dispatch(update_kernel(w, trk), trk)

\* ------------------------------------------------------------------ actions
Commit(w, call, entry) ==
    /\ cache' = w.cache
    /\ next' = w.next
    /\ last' = w.last
    /\ status' = w.status
    /\ trust_level' = w.trust_level
    /\ heartbeat' = w.heartbeat
    /\ volume_index' = w.volume_index
    /\ direction' = w.direction
    /\ last_call' = call
    /\ entry_trust' = entry
    /\ outcome' = w.outcome
    /\ oob' = w.oob
    /\ reached' = w.reached
    /\ object_trace' = w.trace
    /\ UNCHANGED <<bin_view, pair>>

Init ==
    /\ track \in [pos : {0}, lat : Lats, dir : Dirs]
    /\ cache = <<>>
    /\ next = 1
    /\ last = 1
    /\ status = "unknown"
    /\ trust_level = e_no_trust
    /\ heartbeat = FALSE
    /\ volume_index = 0
    /\ direction = "forward"
    /\ last_call = "other"
    /\ entry_trust = e_no_trust
    /\ outcome = "none"
    /\ oob = FALSE
    /\ reached = default_intersection
    /\ object_trace = <<>>
    /\ bin_view = no_bin_view
    /\ pair = <<>>

\* The memory contents a call can meet: they matter only to a call that
\* dereferences outside the stored records or reads an invalid volume.
Memories(probe) ==
    IF probe.oob
    THEN Garbage \X GarbageVolumes
    ELSE {<<default_intersection, 0>>}

\* the value init returns to its caller
init_outcome(w) ==
    [w EXCEPT !.outcome = IF w.heartbeat THEN "init_ok" ELSE "init_failed"]

\* the propagator calls navigator::init
NavInit ==
    \E m \in Memories(init(CallState(default_intersection, 0), track)) :
        /\ Commit(init_outcome(init(CallState(m[1], m[2]), track)),
                  "init", trust_level)
        /\ UNCHANGED track

\* the propagator calls navigator::update
NavUpdate ==
    \E m \in Memories(update(CallState(default_intersection, 0), track)) :
        /\ Commit(update(CallState(m[1], m[2]), track), "update",
                  trust_level)
        /\ UNCHANGED track

\* an actor calls one of the set_*_trust methods of the state
Actor(call, t) ==
    /\ trust_level' = t
    /\ last_call' = call
    /\ entry_trust' = IF call = "other" THEN e_no_trust ELSE trust_level
    /\ outcome' = "none"
    /\ oob' = FALSE
    /\ reached' = default_intersection
    /\ UNCHANGED <<track, cache, next, last, status, heartbeat,
                   volume_index, direction, object_trace, bin_view, pair>>

SetNoTrust == Actor("other", set_no_trust(trust_level))
SetFairTrust == Actor("other", set_fair_trust(trust_level))
SetHighTrust == Actor("other", set_high_trust(trust_level))
SetFullTrust == Actor("other", set_full_trust(trust_level))

\* the same calls, with the method called and the trust level it found kept
\* in last_call and entry_trust
CallSetNoTrust == Actor("set_no_trust", set_no_trust(trust_level))
CallSetFairTrust == Actor("set_fair_trust", set_fair_trust(trust_level))
CallSetHighTrust == Actor("set_high_trust", set_high_trust(trust_level))
CallSetFullTrust == Actor("set_full_trust", set_full_trust(trust_level))

\* an actor (an aborter) calls navigator::state::abort
ActorAbort ==
    /\ Commit(abort(CallState(default_intersection, 0)), "abort",
              e_no_trust)
    /\ UNCHANGED track

\* the stepper moves the track
Step ==
    /\ \E p \in Positions, l \in Lats, d \in Dirs :
           /\ track' = [pos |-> p, lat |-> l, dir |-> d]
           /\ track' # track
    /\ last_call' = "other"
    /\ entry_trust' = e_no_trust
    /\ outcome' = "none"
    /\ oob' = FALSE
    /\ reached' = default_intersection
    /\ UNCHANGED <<nav_vars, object_trace, bin_view, pair>>

\* the stepper advances the track by one unit along its direction
Advance ==
    /\ track.pos + track.dir \in Positions
    /\ \E l \in Lats :
           track' = [track EXCEPT !.pos = track.pos + track.dir, !.lat = l]
    /\ last_call' = "other"
    /\ entry_trust' = e_no_trust
    /\ outcome' = "none"
    /\ oob' = FALSE
    /\ reached' = default_intersection
    /\ UNCHANGED <<nav_vars, object_trace, bin_view, pair>>

Next ==
    \/ NavInit
    \/ NavUpdate
    \/ SetNoTrust
    \/ SetFairTrust
    \/ SetHighTrust
    \/ SetFullTrust
    \/ Step

Spec == Init /\ [][Next]_vars

NextTrust ==
    \/ NavInit
    \/ NavUpdate
    \/ CallSetNoTrust
    \/ CallSetFairTrust
    \/ CallSetHighTrust
    \/ CallSetFullTrust
    \/ Advance

SpecTrust == Init /\ [][NextTrust]_vars

\* the propagation with an aborter among the actors
NextAbort ==
    \/ NavInit
    \/ NavUpdate
    \/ SetNoTrust
    \/ SetFairTrust
    \/ SetHighTrust
    \/ SetFullTrust
    \/ ActorAbort
    \/ Advance

SpecAbort == Init /\ [][NextAbort]_vars

\* The guided propagation through the telescope: the track starts on the
\* first plane, pointing along the axis.
TelescopeInit ==
    /\ track \in [pos : {0}, lat : Lats, dir : Dirs]
    /\ cache = <<>>
    /\ next = 1
    /\ last = 1
    /\ status = "unknown"
    /\ trust_level = e_no_trust
    /\ heartbeat = FALSE
    /\ volume_index = 2
    /\ direction = "forward"
    /\ last_call = "other"
    /\ entry_trust = e_no_trust
    /\ outcome = "none"
    /\ oob = FALSE
    /\ reached = default_intersection
    /\ object_trace = <<>>
    /\ bin_view = no_bin_view
    /\ pair = <<>>

\* propagate: the navigator is initialised once, before the first step
TelescopeNavInit ==
    /\ last_call = "other"
    /\ Commit(init_outcome(init(TracedState, track)), "init", trust_level)
    /\ UNCHANGED track

\* propagate: while the heartbeat holds the stepper advances the track by the
\* distance to the next candidate and its policy lowers the trust level
GuidedStep ==
    /\ heartbeat
    /\ last_call \in {"init", "update"}
    /\ next \in 1..Len(cache)
    /\ track' = [track EXCEPT !.pos = @ + track.dir * cache[next].path]
    /\ \E t \in {set_no_trust(trust_level), set_fair_trust(trust_level),
                  set_high_trust(trust_level)} : trust_level' = t
    /\ last_call' = "step"
    /\ entry_trust' = e_no_trust
    /\ outcome' = "none"
    /\ oob' = FALSE
    /\ reached' = default_intersection
    /\ UNCHANGED <<cache, next, last, status, heartbeat, volume_index,
                   direction, object_trace, bin_view, pair>>

\* propagate: the navigator is updated after every step
TelescopeNavUpdate ==
    /\ last_call = "step"
    /\ Commit(update(TracedState, track), "update", trust_level)
    /\ UNCHANGED track

NextTelescope ==
    \/ TelescopeNavInit
    \/ GuidedStep
    \/ TelescopeNavUpdate

SpecTelescope == TelescopeInit /\ [][NextTelescope]_vars

\* The guided propagation through the crowded volume.
CrowdedInit ==
    /\ track \in [pos : {0}, lat : Lats, dir : Dirs]
    /\ cache = <<>>
    /\ next = 1
    /\ last = 1
    /\ status = "unknown"
    /\ trust_level = e_no_trust
    /\ heartbeat = FALSE
    /\ volume_index = 3
    /\ direction = "forward"
    /\ last_call = "other"
    /\ entry_trust = e_no_trust
    /\ outcome = "none"
    /\ oob = FALSE
    /\ reached = default_intersection
    /\ object_trace = <<>>
    /\ bin_view = no_bin_view
    /\ pair = <<>>

SpecCrowded == CrowdedInit /\ [][NextTelescope]_vars

\* The navigation through the staggered volume, with the stepper free to
\* displace the track sideways.
StaggeredInit ==
    /\ track \in [pos : {0}, lat : Lats, dir : Dirs]
    /\ cache = <<>>
    /\ next = 1
    /\ last = 1
    /\ status = "unknown"
    /\ trust_level = e_no_trust
    /\ heartbeat = FALSE
    /\ volume_index = 4
    /\ direction = "forward"
    /\ last_call = "other"
    /\ entry_trust = e_no_trust
    /\ outcome = "none"
    /\ oob = FALSE
    /\ reached = default_intersection
    /\ object_trace = <<>>
    /\ bin_view = no_bin_view
    /\ pair = <<>>

SpecStaggered == StaggeredInit /\ [][Next]_vars

\* The navigation that starts in volume 5 and crosses into volume 6.
GapInit ==
    /\ track \in [pos : {0}, lat : Lats, dir : Dirs]
    /\ cache = <<>>
    /\ next = 1
    /\ last = 1
    /\ status = "unknown"
    /\ trust_level = e_no_trust
    /\ heartbeat = FALSE
    /\ volume_index = 5
    /\ direction = "forward"
    /\ last_call = "other"
    /\ entry_trust = e_no_trust
    /\ outcome = "none"
    /\ oob = FALSE
    /\ reached = default_intersection
    /\ object_trace = <<>>
    /\ bin_view = no_bin_view
    /\ pair = <<>>

SpecGap == GapInit /\ [][Next]_vars

\* The guided propagation through the toy detector: a straight track that
\* starts in volume 0, inside the mask of every portal.
ClosedInit ==
    /\ track \in [pos : {0, 1}, lat : {0}, dir : Dirs]
    /\ cache = <<>>
    /\ next = 1
    /\ last = 1
    /\ status = "unknown"
    /\ trust_level = e_no_trust
    /\ heartbeat = FALSE
    /\ volume_index = 0
    /\ direction = "forward"
    /\ last_call = "other"
    /\ entry_trust = e_no_trust
    /\ outcome = "none"
    /\ oob = FALSE
    /\ reached = default_intersection
    /\ object_trace = <<>>
    /\ bin_view = no_bin_view
    /\ pair = <<>>

\* propagate: the step of the guided loop, followed for MaxReports reports
BoundedGuidedStep ==
    /\ Len(object_trace) < MaxReports
    /\ GuidedStep

NextClosed ==
    \/ TelescopeNavInit
    \/ BoundedGuidedStep
    \/ TelescopeNavUpdate

SpecClosed == ClosedInit /\ [][NextClosed]_vars

\* A propagation through the telescope that is turned round on a module:
\* the navigation direction is set to backward and the propagation is
\* started again, back to the origin at position 0.
direction_sign(dir) == IF dir = "backward" THEN 0 - 1 ELSE 1

\* navigator::state::set_direction(e_backward), then a new propagation
SetDirectionBackward ==
    /\ direction = "forward"
    /\ last_call = "update"
    /\ status = "on_module"
    /\ track.pos > 0
    /\ direction' = "backward"
    /\ last_call' = "other"
    /\ entry_trust' = e_no_trust
    /\ outcome' = "none"
    /\ oob' = FALSE
    /\ reached' = default_intersection
    /\ UNCHANGED <<track, cache, next, last, status, trust_level, heartbeat,
                   volume_index, object_trace, bin_view, pair>>

\* the stepper advances the track by the distance to the next candidate,
\* along the track when navigating forward and against it when navigating
\* backward, until the origin is reached; its policy lowers the trust level
DirectedStep ==
    /\ heartbeat
    /\ last_call \in {"init", "update"}
    /\ next \in 1..Len(cache)
    /\ direction = "backward" => track.pos > 0
    /\ track' = [track EXCEPT
                    !.pos = @ + direction_sign(direction) * track.dir *
                                cache[next].path]
    /\ \E t \in {set_no_trust(trust_level), set_fair_trust(trust_level),
                  set_high_trust(trust_level)} : trust_level' = t
    /\ last_call' = "step"
    /\ entry_trust' = e_no_trust
    /\ outcome' = "none"
    /\ oob' = FALSE
    /\ reached' = default_intersection
    /\ UNCHANGED <<cache, next, last, status, heartbeat, volume_index,
                   direction, object_trace, bin_view, pair>>

NextReverse ==
    \/ TelescopeNavInit
    \/ DirectedStep
    \/ TelescopeNavUpdate
    \/ SetDirectionBackward

SpecReverse == TelescopeInit /\ [][NextReverse]_vars

\* Two propagations over the same detector (the telescope), each with its
\* own track and its own navigator state, run in any interleaving.  pair[x]
\* holds the track, the navigator state and the last call of propagation x.
fresh_call(w) ==
    [w EXCEPT !.mem = default_intersection, !.gvol = 0, !.oob = FALSE,
              !.stray = FALSE, !.reached = default_intersection,
              !.outcome = "none"]

pair_start(l) ==
    [track |-> [pos |-> 0, lat |-> l, dir |-> 1],
     last_call |-> "other",
     w |-> [cache |-> <<>>, next |-> 1, last |-> 1, status |-> "unknown",
            trust_level |-> e_no_trust, heartbeat |-> FALSE,
            volume_index |-> 2, direction |-> "forward",
            mem |-> default_intersection, gvol |-> 0, oob |-> FALSE,
            reached |-> default_intersection, outcome |-> "none",
            trace |-> <<>>, inspect |-> FALSE, stray |-> FALSE]]

\* navigator::init on the state of one propagation
alone_init(r) ==
    [r EXCEPT !.w = init_outcome(init(fresh_call(r.w), r.track)),
              !.last_call = "init"]

\* the step of one propagation, with the trust level t its policy leaves
alone_step(r, t) ==
    [r EXCEPT !.track.pos = @ + r.track.dir * deref(r.w, r.w.next).path,
              !.w.trust_level = t,
              !.last_call = "step"]

\* navigator::update on the state of one propagation
alone_update(r) ==
    [r EXCEPT !.w = update(fresh_call(r.w), r.track),
              !.last_call = "update"]

can_init(r) == r.last_call = "other"
can_step(r) == r.w.heartbeat /\ r.last_call \in {"init", "update"}
can_update(r) == r.last_call = "step"

\* What a call on one state can leave in the other one: nothing, unless the
\* call wrote through an iterator outside its own vector; such a write can
\* land in the records of the other state.
stray_outcomes(w, other) ==
    IF w.stray /\ other.w.cache # <<>>
    THEN {other, [other EXCEPT !.w.cache[1] = w.mem]}
    ELSE {other}

PairInit ==
    /\ track = [pos |-> 0, lat |-> 0, dir |-> 1]
    /\ cache = <<>>
    /\ next = 1
    /\ last = 1
    /\ status = "unknown"
    /\ trust_level = e_no_trust
    /\ heartbeat = FALSE
    /\ volume_index = 2
    /\ direction = "forward"
    /\ last_call = "other"
    /\ entry_trust = e_no_trust
    /\ outcome = "none"
    /\ oob = FALSE
    /\ reached = default_intersection
    /\ object_trace = <<>>
    /\ bin_view = no_bin_view
    /\ \E l1, l2 \in Lats : pair = <<pair_start(l1), pair_start(l2)>>

PairCommit(x, r) ==
    /\ \E o \in stray_outcomes(r.w, pair[3 - x]) :
           pair' = [pair EXCEPT ![x] = r, ![3 - x] = o]
    /\ UNCHANGED <<navigation_vars, bin_view>>

PairNavInit ==
    \E x \in 1..2 :
        /\ can_init(pair[x])
        /\ PairCommit(x, alone_init(pair[x]))

PairStep ==
    \E x \in 1..2 :
        /\ can_step(pair[x])
        /\ \E t \in {set_no_trust(pair[x].w.trust_level),
                      set_fair_trust(pair[x].w.trust_level),
                      set_high_trust(pair[x].w.trust_level)} :
               /\ pair' = [pair EXCEPT ![x] = alone_step(pair[x], t)]
               /\ UNCHANGED <<navigation_vars, bin_view>>

PairNavUpdate ==
    \E x \in 1..2 :
        /\ can_update(pair[x])
        /\ PairCommit(x, alone_update(pair[x]))

NextPair ==
    \/ PairNavInit
    \/ PairStep
    \/ PairNavUpdate

SpecPair == PairInit /\ [][NextPair]_vars

\* The bin view of a two-dimensional grid: grid::search builds it from the
\* bin ranges around the bin of a point, the join view then walks it.
GridInit ==
    /\ track = [pos |-> 0, lat |-> 0, dir |-> 1]
    /\ cache = <<>>
    /\ next = 1
    /\ last = 1
    /\ status = "unknown"
    /\ trust_level = e_no_trust
    /\ heartbeat = FALSE
    /\ volume_index = 0
    /\ direction = "forward"
    /\ last_call = "other"
    /\ entry_trust = e_no_trust
    /\ outcome = "none"
    /\ oob = FALSE
    /\ reached = default_intersection
    /\ object_trace = <<>>
    /\ pair = <<>>
    /\ \E a1, a2 \in Axes :
       \E b1 \in 0..(a1.nbins - 1), b2 \in 0..(a2.nbins - 1) :
       \E w1, w2 \in 0..1 :
           bin_view =
               [axes |-> <<a1, a2>>,
                window |-> <<bin_range(a1, b1, w1), bin_range(a2, b2, w2)>>,
                indexer |-> indexer_begin(<<bin_range(a1, b1, w1),
                                            bin_range(a2, b2, w2)>>),
                lbin |-> <<>>]

\* bin_iterator::operator*
BinDeref ==
    /\ bin_view.indexer # indexer_end(bin_view.window)
    /\ bin_view' = [bin_view EXCEPT
                        !.lbin = map_circular(bin_view.axes,
                                              bin_view.indexer)]
    /\ UNCHANGED <<navigation_vars, pair>>

\* bin_iterator::operator++
BinIncrement ==
    /\ bin_view.indexer # indexer_end(bin_view.window)
    /\ bin_view' = [bin_view EXCEPT
                        !.indexer = indexer_next(bin_view.window, @),
                        !.lbin = <<>>]
    /\ UNCHANGED <<navigation_vars, pair>>

\* bin_iterator::operator--
BinDecrement ==
    /\ bin_view.indexer # indexer_begin(bin_view.window)
    /\ bin_view' = [bin_view EXCEPT
                        !.indexer = indexer_prev(bin_view.window, @),
                        !.lbin = <<>>]
    /\ UNCHANGED <<navigation_vars, pair>>

NextGrid ==
    \/ BinDeref
    \/ BinIncrement
    \/ BinDecrement

SpecGrid == GridInit /\ [][NextGrid]_vars

TypeOK ==
    /\ track \in [pos : Positions, lat : Lats, dir : Dirs]
    /\ status \in StatusValues
    /\ trust_level \in TrustLevels
    /\ heartbeat \in BOOLEAN
    /\ next \in 1..(Len(cache) + 2)
    /\ last \in 1..(Len(cache) + 1)

\* ------------------------------------------------------------------ claims
AfterCall == last_call \in {"init", "update"}
Range == {i \in 1..Len(cache) : i >= next /\ i < last}
Sorted == \A i, j \in Range : i < j => cache[i].path <= cache[j].path
Exhausted == (last - next) <= 0
Terminal == status \in {"on_target", "abort"} /\ ~heartbeat
OnObject == {"on_module", "on_portal"}
Moving == {"towards_object", "on_module", "on_portal"}

\* C1: after every init or update call, every record in [next, last) has
\* status = inside and path > overstep_tolerance.
C1_ReachableRange ==
    AfterCall =>
        \A i \in Range : /\ cache[i].status = "inside"
                         /\ cache[i].path > overstep_tolerance

\* C2 (as stated): after every init or update call, whatever the trust level
\* the call was entered with, the records in [next, last) are in
\* non-decreasing order of path.
C2_SortedAfterEveryCall == AfterCall => Sorted

\* C2 (amended): after every init call and after every update call entered
\* with trust level no_trust or fair, the records in [next, last) are in
\* non-decreasing order of path.
C2_SortedAfterInitOrFairUpdate ==
    (\/ last_call = "init"
     \/ last_call = "update" /\ entry_trust \in {e_no_trust, e_fair})
        => Sorted

\* an update entered with fair trust has re-sorted at least two records
C2_Witness ==
    /\ last_call = "update"
    /\ entry_trust = e_fair
    /\ outcome = "full"
    /\ Cardinality(Range) >= 2
    /\ \E i, j \in Range : cache[i].path < cache[j].path

\* C3: after every navigator call, heartbeat = false if and only if status
\* is on_target or abort.
C3_HeartbeatIffTerminal ==
    AfterCall => (heartbeat = FALSE <=> status \in {"on_target", "abort"})

\* C4 (as stated): after every navigator call, status = on_portal implies
\* trust_level = no_trust.
C4_PortalNoTrustAfterEveryCall ==
    AfterCall => (status = "on_portal" => trust_level = e_no_trust)

\* C4 (amended): after an init call, status = on_portal implies
\* trust_level = no_trust; after an update call, status = on_portal implies
\* trust_level = full (the volume switch forces full trust).
C4_PortalTrust ==
    /\ (last_call = "init" /\ status = "on_portal")
           => trust_level = e_no_trust
    /\ (last_call = "update" /\ status = "on_portal")
           => trust_level = e_full

\* an init that found the track on a portal of the volume
C4_Witness ==
    /\ last_call = "init"
    /\ status = "on_portal"
    /\ ~oob
    /\ next = 2
    /\ Surfaces[cache[1].sf].is_portal

\* C5: across an init or update call, volume_index changes only when update
\* took the portal branch, and the new value is the volume_link of the
\* record just reached; init, the fallback re-initialisation and abort leave
\* volume_index unchanged.
C5_VolumeOnlyAtPortal ==
    [][(last_call' \in {"init", "update"}) =>
          /\ (volume_index' # volume_index =>
                 /\ last_call' = "update"
                 /\ outcome' \in {"switch", "exit"})
          /\ (last_call' = "update" /\ outcome' \in {"switch", "exit"} =>
                 /\ volume_index' = reached'.volume_link
                 /\ (~oob' => /\ reached'.sf \in SurfaceIds
                              /\ Surfaces[reached'.sf].is_portal
                              /\ volume_index' =
                                     Surfaces[reached'.sf].volume_link))
          /\ (last_call' = "init" \/ outcome' \in {"full", "reinit", "abort"}
                 => volume_index' = volume_index)]_vars

\* an update has switched from volume 0 to volume 1 at the portal of volume 0
C5_Witness ==
    /\ last_call = "update"
    /\ outcome = "switch"
    /\ ~oob
    /\ reached.sf = 3
    /\ volume_index = 1

\* the level a set_*_trust call asks for
Requested(call) ==
    IF call = "set_no_trust" THEN e_no_trust
    ELSE IF call = "set_fair_trust" THEN e_fair
    ELSE IF call = "set_high_trust" THEN e_high
    ELSE e_full

\* C6: each set_*_trust call leaves trust_level = min(t, requested level),
\* never raises the trust level and changes no other field of the state.
C6_SetTrustIsMin ==
    [][(last_call' \in {"set_no_trust", "set_fair_trust", "set_high_trust",
                        "set_full_trust"}) =>
          /\ trust_level' = Min(trust_level, Requested(last_call'))
          /\ trust_level' <= trust_level
          /\ UNCHANGED <<track, cache, next, last, status, heartbeat,
                         volume_index, direction>>]_vars

\* set_high_trust was called on a state without trust and left it so
C6_Witness ==
    /\ last_call = "set_high_trust"
    /\ entry_trust = e_no_trust
    /\ trust_level = e_no_trust

\* C7 (as stated): trust goes from a lower level to full only inside init or
\* inside a successful update_navigation_state; abort, exit and the
\* post-dispatch code of update never set it to full.
C7_FullOnlyByInitOrStateUpdate ==
    [][(trust_level' = e_full /\ trust_level < e_full) =>
          /\ last_call' \in {"init", "update"}
          /\ outcome' \in {"init_ok", "full", "reinit"}]_vars

\* C7 (amended): trust goes from a lower level to full only by a successful
\* update_navigation_state inside init or update (cache not exhausted, track
\* not on a portal), by abort() (called by update or by an actor), by exit()
\* or by the forced full trust after a volume switch; no set_*_trust call
\* raises it.
C7_FullOnlyInsideCalls ==
    [][(trust_level' = e_full /\ trust_level < e_full) =>
          \/ /\ last_call' \in {"init", "update"}
             /\ \/ /\ outcome' \in {"init_ok", "full", "reinit"}
                   /\ next' < last'
                   /\ status' \in {"towards_object", "on_module"}
                \/ outcome' = "abort" /\ status' = "abort"
                \/ outcome' = "exit" /\ status' = "on_target"
                \/ outcome' = "switch"
          \/ last_call' = "abort" /\ status' = "abort"]_vars

\* an update has raised the trust from high to full by re-intersecting next
C7_Witness ==
    /\ last_call = "update"
    /\ entry_trust = e_high
    /\ outcome = "full"
    /\ trust_level = e_full
    /\ status = "towards_object"

\* C8: once status is on_target or abort with heartbeat = false, update
\* calls and trust-lowering actor calls leave status unchanged and
\* heartbeat = false.
C8_TerminalStays ==
    [][(Terminal /\ last_call' \in {"update", "other"}) =>
          (status' = status /\ ~heartbeat')]_vars

\* the status transitions listed for the navigator
ListedTransition(a, b, call) ==
    \/ a = "unknown" /\ b \in Moving /\ call = "init"
    \/ a = "towards_object" /\ b \in OnObject /\ call = "update"
    \/ a \in OnObject /\ b = "towards_object" /\ call = "update"
    \/ b = "on_target"
    \/ b = "abort"

C10_InitHeartbeat ==
    last_call = "init" =>
        /\ heartbeat <=> (trust_level = e_full)
        /\ (trust_level = e_full) <=> (~Exhausted /\ status # "on_portal")
        /\ ~heartbeat => trust_level = e_no_trust
        /\ outcome = (IF heartbeat THEN "init_ok" ELSE "init_failed")

\* an init that emptied the cache by landing on its only candidate
C10_Witness ==
    /\ last_call = "init"
    /\ ~heartbeat
    /\ ~oob
    /\ status = "on_module"
    /\ Exhausted

\* the state update_kernel leaves for the dispatch of update, from the
\* current state
AfterKernel == update_kernel(CallState(default_intersection, 0), track)

\* the record at index i is a portal with a valid volume link and the track
\* is on it
OnPortalAt(i) ==
    /\ i \in 1..Len(cache)
    /\ i < last
    /\ cache[i].sf \in SurfaceIds
    /\ Surfaces[cache[i].sf].is_portal
    /\ Surfaces[cache[i].sf].volume_link \in Volumes
    /\ update_candidate(cache[i], track).ok
    /\ is_on_object(update_candidate(cache[i], track).rec)

InVolume(c, v) ==
    \A i \in 1..Len(c) : /\ c[i].sf \in SurfaceIds
                         /\ Surfaces[c[i].sf].volume = v

OnWorldPortal(k) ==
    /\ k.trust_level # e_full
    /\ is_on_portal(k)
    /\ ~k.oob
    /\ InCache(k, k.next - 1)
    /\ deref(k, k.next - 1).volume_link = invalid_value

\* C12: when update finds the track on a portal whose volume link is the
\* invalid value it runs exit: afterwards status = on_target, heartbeat =
\* false, the cache is empty with next = last = end, is_complete() is true,
\* and the volume is not re-initialised.
C12_ExitAtWorldPortal ==
    [][(last_call' = "update") =>
          /\ OnWorldPortal(AfterKernel) => outcome' = "exit"
          /\ outcome' = "exit" =>
                /\ status' = "on_target"
                /\ heartbeat' = FALSE
                /\ cache' = <<>>
                /\ next' = 1
                /\ last' = 1
                /\ volume_index' = invalid_value
                /\ is_complete(CallState(default_intersection, 0))'
                /\ (~oob' => /\ reached'.sf \in SurfaceIds
                             /\ Surfaces[reached'.sf].is_portal
                             /\ Surfaces[reached'.sf].volume_link =
                                    invalid_value)]_vars

\* an update has left the detector through the outer portal of volume 1
C12_Witness ==
    /\ last_call = "update"
    /\ outcome = "exit"
    /\ ~oob
    /\ reached.sf = 5
    /\ is_complete(CallState(default_intersection, 0))
    /\ cache = <<>>

\* C13: whenever an init - called directly, from the dispatch of update or
\* after a volume switch - leaves the cache exhausted, so that full trust is
\* not restored, the enclosing navigator call ends with heartbeat = false
\* and status = abort (stated for the calls that read no memory outside the
\* cache).
C13_InitFailureAborts ==
    (/\ ~oob
     /\ \/ last_call = "init" /\ Exhausted
        \/ last_call = "update" /\ outcome \in {"switch", "reinit", "abort"}
                                /\ Exhausted)
        => (heartbeat = FALSE /\ status = "abort")

\* the dispatch of update finds the cache exhausted and the track not on a
\* portal
ExhaustedAfterKernel(k) ==
    /\ k.trust_level # e_full
    /\ ~is_on_portal(k)
    /\ is_exhausted(k)

\* the re-initialisation of the current volume from the state k
Reinit(k) == init(k, track)

\* C14: if after the trust-level dispatch of update the cache is exhausted
\* and the track is not on a portal, the trust level is no_trust and update
\* re-initialises the current volume; if that init leaves trust_level
\* different from full or the cache exhausted, update ends with status =
\* abort and heartbeat = false, otherwise with heartbeat = true and
\* trust_level = full.
C14_ExhaustionFallback ==
    [][(last_call' = "update" /\ ~oob' /\ ExhaustedAfterKernel(AfterKernel))
          => /\ AfterKernel.trust_level = e_no_trust
             /\ volume_index' = volume_index
             /\ cache' = Reinit(AfterKernel).cache
             /\ next' = Reinit(AfterKernel).next
             /\ last' = Reinit(AfterKernel).last
             /\ IF Reinit(AfterKernel).trust_level # e_full \/
                   is_exhausted(Reinit(AfterKernel))
                THEN /\ outcome' = "abort"
                     /\ status' = "abort"
                     /\ heartbeat' = FALSE
                ELSE /\ outcome' = "reinit"
                     /\ heartbeat' = TRUE
                     /\ trust_level' = e_full
                     /\ status' \in {"towards_object", "on_module"}]_vars

\* an update entered with fair trust found its cache exhausted, and the
\* re-initialisation landed on the only candidate: update has aborted
C14_Witness ==
    /\ last_call = "update"
    /\ entry_trust = e_fair
    /\ outcome = "abort"
    /\ ~oob
    /\ status = "abort"
    /\ heartbeat = FALSE
    /\ Len(cache) >= 1
    /\ Exhausted

StateOf(w) ==
    <<w.cache, w.next, w.last, w.status, w.trust_level, w.heartbeat,
      w.volume_index, w.direction>>

\* C16: a second update that follows an update with no stepper advance and
\* no actor call in between leaves the state as the first left it (status,
\* trust_level, heartbeat, volume_index, cache and both cursors) and returns
\* the same heartbeat.
C16_UpdateIdempotent ==
    last_call = "update" =>
        /\ trust_level = e_full
        /\ StateOf(update(CallState(default_intersection, 0), track)) =
               StateOf(CallState(default_intersection, 0))

\* an update found the state as the update that switched the volume had left
\* it: on the portal of the new volume with full trust
C16_Witness ==
    /\ last_call = "update"
    /\ entry_trust = e_full
    /\ outcome = "full"
    /\ status = "on_portal"
    /\ heartbeat = TRUE
    /\ ~oob


\* the surfaces of the telescope in index order, the portal last
TelescopeSequence == visit_neighborhood(2)

\* what the object tracer is expected to hold for the i-th surface
Reported(i) ==
    [sf |-> TelescopeSequence[i],
     status |-> IF i <= NPlanes THEN "on_module" ELSE "on_portal"]

TraceInOrder ==
    /\ Len(object_trace) <= Len(TelescopeSequence)
    /\ \A i \in 1..Len(object_trace) : object_trace[i] = Reported(i)

TraversalDone ==
    /\ is_complete([status |-> status, heartbeat |-> heartbeat])
    /\ Len(object_trace) = NPlanes + 1

\* the position of the portal that closes the telescope
TelescopeEnd == Surfaces[TelescopeSequence[NPlanes + 1]].z

\* C17: in the telescope (NPlanes module planes in index order along a
\* straight track, closed by a portal whose volume link is the invalid
\* sentinel) the loop init, then (advance by the distance to next, update)
\* repeated, reports every plane once as on_module in increasing index order
\* and the portal last as on_portal, never aborts, stops only with
\* is_complete() true and the whole sequence reported, and does stop: every
\* step moves the track forward and never beyond the portal.
C17_TelescopeTraversal ==
    /\ [](/\ TraceInOrder
          /\ status # "abort"
          /\ ~oob
          /\ track.pos <= TelescopeEnd
          /\ (last_call # "other" /\ ~heartbeat => TraversalDone))
    /\ [][last_call' = "step" => track'.pos > track.pos]_vars

C17_Witness ==
    /\ last_call = "update"
    /\ TraversalDone
    /\ TraceInOrder
    /\ object_trace[NPlanes + 1].status = "on_portal"
    /\ object_trace[1].status = "on_module"


\* the state update_navigation_state leaves when it classifies the stored
\* record at next
Classified == update_navigation_state(CallState(default_intersection, 0))

HasNext == next \in Range

ReachedObject(k) ==
    /\ k.next = next + 1
    /\ k.status = IF rec_is_portal(cache[next]) THEN "on_portal"
                  ELSE "on_module"

LeftTowards(k) == k.next = next /\ k.status = "towards_object"

OverstepTols == {overstep_tolerance, overstep_tolerance + 1, 0}

Wires == {s \in SurfaceIds : Surfaces[s].shape = "line"}
CylinderPortals ==
    {s \in SurfaceIds : Surfaces[s].shape = "cylinder" /\ Surfaces[s].is_portal}

\* the wire is not parallel to the track: there is a point of closest
\* approach
Crossing(s) == 1 - (Surfaces[s].zd * Surfaces[s].zd) >= 1

MaskPasses(s) ==
    is_inside(track.lat, Surfaces[s].half, surface_mask_tol(s)) = "inside"

CutoffAt(is, s, tol) ==
    /\ (is.path = tol => is.status # "inside")
    /\ (is.path > tol /\ is.path # numeric_max /\ MaskPasses(s) =>
            is.status = "inside")

\* C19: for the line intersector and the cylinder-portal intersector an
\* intersection whose path equals overstep_tol is never returned with status
\* inside, and one with a path greater than overstep_tol whose local point
\* passes the mask check is returned with status inside: both intersectors
\* apply the same cutoff.
C19_OverstepCutoff ==
    \A tol \in OverstepTols :
        /\ \A s \in Wires :
               Crossing(s) =>
                   CutoffAt(line_intersector(track, s, surface_mask_tol(s),
                                             tol), s, tol)
        /\ \A s \in CylinderPortals :
               CutoffAt(cylinder_portal_intersector(
                            track, s, surface_mask_tol(s), tol), s, tol)


\* the solved quadratics the root selection is checked on: no solution, one
\* (double) root, or two roots smaller <= larger
RootRange == (overstep_tolerance - 1)..(1 - overstep_tolerance)
Quadratics ==
    {qe \in [solutions : 0..2, smaller : RootRange, larger : RootRange] :
        /\ qe.smaller <= qe.larger
        /\ (qe.solutions = 1 => qe.smaller = qe.larger)}

Missed(qe, tol) == qe.solutions = 0 \/ qe.larger <= tol

\* the path the candidate is to be built at
ClosestReachable(qe, tol) ==
    IF qe.smaller > tol THEN qe.smaller ELSE qe.larger

PortalRecords(s) == {i \in 1..Len(cache) : cache[i].sf = s}

\* C20: for every pair of roots smaller <= larger and every overstep_tol the
\* cylinder-portal intersector returns at most one candidate: missed when
\* there is no solution or larger <= overstep_tol, otherwise a candidate built
\* at the smaller root when smaller > overstep_tol and at the larger root
\* when smaller <= overstep_tol < larger.
C20_CylinderPortalRoot ==
    /\ \A qe \in Quadratics, tol \in OverstepTols :
           cylinder_portal_select(qe, tol) =
               IF Missed(qe, tol) THEN numeric_max
               ELSE ClosestReachable(qe, tol)
    /\ \A s \in CylinderPortals, tol \in OverstepTols :
           IF Missed(solve_intersection(track, s), tol)
           THEN cylinder_portal_intersector(
                    track, s, surface_mask_tol(s), tol).status = "missed"
           ELSE /\ cylinder_portal_intersector(
                       track, s, surface_mask_tol(s), tol).path =
                       ClosestReachable(solve_intersection(track, s), tol)
                /\ cylinder_portal_intersector(
                       track, s, surface_mask_tol(s), tol).sf = s
    /\ (last_call = "init" /\ ~oob =>
            \A s \in CylinderPortals :
                /\ Cardinality(PortalRecords(s)) <= 1
                /\ \A i \in PortalRecords(s) :
                       cache[i].path =
                           ClosestReachable(solve_intersection(track, s),
                                            overstep_tolerance))

C20_Witness ==
    /\ last_call = "init"
    /\ ~oob
    /\ \E s \in CylinderPortals :
           /\ solve_intersection(track, s).smaller <= overstep_tolerance
           /\ solve_intersection(track, s).larger > overstep_tolerance
           /\ \E i \in PortalRecords(s) :
                  cache[i].path = solve_intersection(track, s).larger
    /\ \E s \in CylinderPortals :
           /\ Missed(solve_intersection(track, s), 0)
           /\ cylinder_portal_intersector(
                  track, s, surface_mask_tol(s), 0).status = "missed"


\* the axes of the view whose bin has just been fetched
Fetched == bin_view.lbin # <<>>

\* C21: when the bin view is dereferenced the index on every circular axis
\* is wrapped modulo the axis' nbins before the bin is fetched (index = nbins
\* gives bin 0), every fetched local index lies in 0..nbins - 1, and the
\* index on a non-circular axis is passed through unchanged.
C21_CircularWrap ==
    Fetched =>
        \A I \in 1..Len(bin_view.axes) :
            /\ bin_view.lbin[I] \in 0..(bin_view.axes[I].nbins - 1)
            /\ IF bin_view.axes[I].bounds = "circular"
               THEN /\ bin_view.lbin[I] =
                           bin_view.indexer[I] % bin_view.axes[I].nbins
                    /\ (bin_view.indexer[I] = bin_view.axes[I].nbins =>
                            bin_view.lbin[I] = 0)
               ELSE bin_view.lbin[I] = bin_view.indexer[I]

C21_Witness ==
    /\ Fetched
    /\ bin_view.axes[1].bounds = "open"
    /\ bin_view.axes[2].bounds = "circular"
    /\ bin_view.indexer[2] = bin_view.axes[2].nbins
    /\ bin_view.lbin[2] = 0
    /\ bin_view.lbin[1] = bin_view.indexer[1]


\* C22: when the accelerator search yields the same surface more than once
\* the duplicates are removed: after init no two records of [next, last)
\* refer to the same surface.
C22_NoDuplicatesAfterInit ==
    last_call = "init" /\ ~oob =>
        \A i, j \in Range : i # j => cache[i].sf # cache[j].sf


\* C23: after any init or update the candidate cache holds at most the
\* reserved capacity of 20 records, whatever the number of reachable surfaces
\* the accelerators of the volume yield.
C23_CacheWithinCapacity ==
    AfterCall /\ ~oob => Len(cache) <= candidate_capacity


\* the records stored at or after last
BehindLast == {i \in 1..Len(cache) : i >= last}

\* C24: after every init or update call every record stored in [last, end)
\* is invalidated: its path is the numeric maximum.
C24_BehindLastInvalidated ==
    AfterCall /\ ~oob => \A i \in BehindLast : cache[i].path = numeric_max

C24_Witness ==
    /\ last_call = "update"
    /\ entry_trust = e_fair
    /\ ~oob
    /\ BehindLast # {}
    /\ Range # {}
    /\ \A i \in BehindLast : cache[i].path = numeric_max


\* C25: an update entered with trust_level = full changes no field of the
\* navigation state (cache records, next, last, status, trust_level,
\* volume_index, direction, heartbeat) and returns the heartbeat it found.
C25_FullTrustUpdateIsNoOp ==
    [][last_call' = "update" /\ trust_level = e_full =>
           /\ UNCHANGED nav_vars
           /\ outcome' = "full"
           /\ ~oob']_vars

C25_Witness ==
    /\ last_call = "update"
    /\ entry_trust = e_full
    /\ outcome = "full"
    /\ heartbeat
    /\ status = "towards_object"
    /\ cache # <<>>


\* the states one propagation can be in after its next call when it runs
\* alone
AloneNext(r) ==
    (IF can_init(r) THEN {alone_init(r)} ELSE {}) \cup
    (IF can_update(r) THEN {alone_update(r)} ELSE {}) \cup
    (IF can_step(r)
     THEN {alone_step(r, t) : t \in {e_no_trust, e_fair, e_high}}
     ELSE {})

BackAtOrigin ==
    /\ direction = "backward"
    /\ last_call \in {"init", "update"}
    /\ track.pos <= 0

\* the surfaces of a trace, in the order they were reported
TraceSurfaces == [i \in 1..Len(object_trace) |-> object_trace[i].sf]

\* a trace that reads the same in both directions: a forward part followed
\* by the same surfaces in reverse order
ForwardThenReverse(t) ==
    \A i \in 1..Len(t) : t[i] = t[Len(t) + 1 - i]

\* C27: after propagating forward from the origin to a module, reversing
\* the navigation direction and propagating back to the origin reports the
\* modules of the forward pass in exactly the reverse order.
C27_ReverseOrder ==
    BackAtOrigin => ForwardThenReverse(TraceSurfaces)

\* the cache still holds a candidate at next
NonExhausted(w) == InCache(w, w.next) /\ w.next < w.last

\* the call state of a high trust update right after the record at next
\* has been re-intersected with the track
Reintersected ==
    store_next(CallState(default_intersection, 0),
               update_candidate(deref(CallState(default_intersection, 0),
                                      next), track))

\* what update_navigation_state makes of the state w
StateUpdateContract(w, k) ==
    /\ IF Abs(w.cache[w.next].path) < on_surface_tolerance
       THEN /\ k.next = w.next + 1
            /\ k.status = IF rec_is_portal(w.cache[w.next])
                          THEN "on_portal" ELSE "on_module"
       ELSE /\ k.next = w.next
            /\ k.status = "towards_object"
    /\ k.trust_level = IF k.last - k.next <= 0 \/ k.status = "on_portal"
                       THEN e_no_trust ELSE e_full
    /\ k.last = w.last
    /\ k.cache = w.cache
    /\ k.volume_index = w.volume_index

\* C28: on a non-exhausted cache update_navigation_state advances next by
\* one and sets on_portal or on_module when the next record is within
\* on_surface_tolerance, else leaves next and sets towards_object; the trust
\* becomes no_trust if the cache is then exhausted or the status is
\* on_portal and full otherwise; last, the records and the volume index are
\* left alone. Checked on the stored state and on the state a high trust
\* update hands over.
C28_StateUpdate ==
    /\ (NonExhausted(CallState(default_intersection, 0)) =>
            StateUpdateContract(CallState(default_intersection, 0),
                                Classified))
    /\ (NonExhausted(Reintersected) =>
            StateUpdateContract(Reintersected,
                                update_navigation_state(Reintersected)))

C28_Witness ==
    /\ NonExhausted(Reintersected)
    /\ is_on_object(Reintersected.cache[next])
    /\ rec_is_portal(Reintersected.cache[next])
    /\ update_navigation_state(Reintersected).status = "on_portal"
    /\ update_navigation_state(Reintersected).trust_level = e_no_trust
    /\ ~is_exhausted(update_navigation_state(Reintersected))
    /\ heartbeat

\* a fair trust update is about to run on a cache with a record at next
FairEntry ==
    /\ trust_level = e_fair
    /\ InCache(CallState(default_intersection, 0), next)
    /\ next <= last
    /\ last <= Len(cache) + 1

\* the record at i after it has been intersected with the track again
Renewed(i) ==
    IF update_candidate(cache[i], track).ok
    THEN update_candidate(cache[i], track).rec
    ELSE [update_candidate(cache[i], track).rec EXCEPT !.path = numeric_max]

\* the place a stable sort by path gives the record at i of [next, last)
StablePlace(i) ==
    next + Cardinality({j \in next..(last - 1) :
                            \/ Renewed(j).path < Renewed(i).path
                            \/ Renewed(j).path = Renewed(i).path /\ j < i})

\* the first record of c with the largest path, the end if there is none
FirstUnreachable(c) ==
    IF \E i \in 1..Len(c) : c[i].path = numeric_max
    THEN CHOOSE i \in 1..Len(c) :
             /\ c[i].path = numeric_max
             /\ \A j \in 1..(i - 1) : c[j].path # numeric_max
    ELSE Len(c) + 1

\* the state the fair trust branch of update_kernel leaves
FairUpdated == kernel_fair(CallState(default_intersection, 0), track)

\* C29: an update entered with fair trust intersects every record of
\* [next, last) again, gives the unreachable ones the largest path, sorts
\* the range by path keeping the order of equal paths, puts next at the
\* start of the range and last at the first record with the largest path
\* (the end if there is none), and then sets next, status and trust as
\* update_navigation_state does; the records before next are left alone.
C29_FairUpdate ==
    FairEntry =>
        /\ Len(FairUpdated.cache) = Len(cache)
        /\ \A i \in next..(last - 1) :
               FairUpdated.cache[StablePlace(i)] = Renewed(i)
        /\ \A i \in 1..(next - 1) : FairUpdated.cache[i] = cache[i]
        /\ FairUpdated.last = FirstUnreachable(FairUpdated.cache)
        /\ StateUpdateContract(
               [CallState(default_intersection, 0) EXCEPT
                    !.cache = FairUpdated.cache,
                    !.last = FairUpdated.last],
               FairUpdated)

C29_Witness ==
    /\ FairEntry
    /\ last - next >= 2
    /\ \E i \in next..(last - 1) :
           /\ ~update_candidate(cache[i], track).ok
           /\ StablePlace(i) # i
           /\ FairUpdated.last <= StablePlace(i)
    /\ \E i, j \in next..(last - 1) :
           /\ i < j
           /\ Renewed(i).path = Renewed(j).path
           /\ Renewed(i) # Renewed(j)
    /\ FairUpdated.last < last
    /\ FairUpdated.status = "towards_object"
    /\ FairUpdated.trust_level = e_full

\* a high trust update is about to run and the record at next, intersected
\* with the track again, is reachable and not yet within the tolerance
HighEntryStillAhead ==
    /\ trust_level = e_high
    /\ InCache(CallState(default_intersection, 0), next)
    /\ update_candidate(cache[next], track).ok
    /\ ~(Abs(update_candidate(cache[next], track).rec.path)
             < on_surface_tolerance)

\* C30: an update entered with high trust whose record at next is still
\* reachable and not within on_surface_tolerance after it has been
\* intersected again changes that record only: every other record, the order
\* of the cache, next and last stay as they were, and the call ends with
\* status towards_object and full trust.
C30_HighTouchesNextOnly ==
    [][(HighEntryStillAhead /\ last_call' = "update" /\ track' = track) =>
          /\ cache' = [cache EXCEPT ![next] =
                           update_candidate(cache[next], track).rec]
          /\ next' = next
          /\ last' = last
          /\ status' = "towards_object"
          /\ trust_level' = e_full]_vars

C30_Witness ==
    /\ last_call = "update"
    /\ entry_trust = e_high
    /\ outcome = "full"
    /\ status = "towards_object"
    /\ trust_level = e_full
    /\ next + 1 < last
    /\ last <= Len(cache) + 1
    /\ update_candidate(cache[next], track).rec = cache[next]
    /\ update_candidate(cache[next + 1], track).rec # cache[next + 1]

\* the state of a high trust update after the record at next has been
\* intersected again and classified
Landed == update_navigation_state(Reintersected)

\* a high trust update is about to run, the track has reached the module at
\* next and the record behind it is not reachable any more
HighLandedNextLost ==
    /\ trust_level = e_high
    /\ InCache(CallState(default_intersection, 0), next)
    /\ update_candidate(cache[next], track).ok
    /\ Landed.status = "on_module"
    /\ Landed.trust_level = e_full
    /\ InCache(Landed, Landed.next)
    /\ ~update_candidate(Landed.cache[Landed.next], track).ok

\* a high trust update is about to run and the record at next is not
\* reachable any more
HighFirstLost ==
    /\ trust_level = e_high
    /\ InCache(CallState(default_intersection, 0), next)
    /\ ~update_candidate(cache[next], track).ok

\* the state the fair trust procedure leaves when it is run on the records
\* behind the module reached
Escalated ==
    kernel_fair(
        [store_next(Landed,
                    update_candidate(deref(Landed, Landed.next), track))
             EXCEPT !.trust_level = e_fair],
        track)

\* the record at i of the cache after the step is what intersecting it with
\* the track gives, with the largest path if it is not reachable
UpToDate(i) ==
    cache'[i] = invalidate(update_candidate(cache'[i], track'))

\* C31: in an update entered with high trust, when the track has landed on
\* a module and the record that is next behind it is not reachable, the
\* same call runs the fair trust procedure on the remaining range (the call
\* ends with the records of [next, last) intersected again and sorted, and
\* returns without initialising the volume if that restores full trust);
\* when the record at next itself is not reachable, the fair procedure is
\* not run and the volume is initialised again.
C31_HighEscalation ==
    [][(last_call' = "update" /\ track' = track) =>
          /\ (HighLandedNextLost /\ Escalated.trust_level = e_full =>
                  /\ outcome' = "full"
                  /\ cache' = Escalated.cache
                  /\ next' = Escalated.next
                  /\ last' = Escalated.last
                  /\ status' = Escalated.status
                  /\ next' > next
                  /\ \A i \in next'..(last' - 1) :
                         /\ UpToDate(i)
                         /\ cache'[i].path < numeric_max
                         /\ (i > next' =>
                                 cache'[i - 1].path <= cache'[i].path)
                  /\ \A i \in last'..(last - 1) :
                         cache'[i].path = numeric_max)
          /\ (HighLandedNextLost /\ Escalated.trust_level # e_full =>
                  outcome' # "full")
          /\ (HighFirstLost =>
                  /\ outcome' \in {"reinit", "abort"}
                  /\ (volume_index \in Volumes =>
                          cache' = init(CallState(default_intersection, 0),
                                        track).cache))]_vars

C31_Witness ==
    /\ HighLandedNextLost
    /\ Escalated.trust_level = e_full
    /\ Escalated.status = "towards_object"
    /\ Escalated.next = next + 1
    /\ Escalated.last < last
    /\ Escalated.last - Escalated.next >= 2
    /\ Escalated.cache # Landed.cache
    /\ update(CallState(default_intersection, 0), track).outcome = "full"

\* the record an intersector called with the tolerances of the configuration
\* gives for surface s: no mask tolerance for a portal, cfg.mask_tolerance
\* for a module, cfg.overstep_tolerance for both
Intersected(s) ==
    visit_mask(track, s,
               IF Surfaces[s].is_portal THEN 0 ELSE mask_tolerance,
               overstep_tolerance)

SeqRange(q) == {q[i] : i \in 1..Len(q)}

\* the records init collects in volume v for the track
Collected(v) == SeqRange(candidate_search(track, visit_neighborhood(v)))

\* C32: every surface init intersects while it fills the cache, and every
\* record update intersects again, is intersected with mask tolerance 0 if
\* the surface is a portal and cfg.mask_tolerance otherwise, and with
\* cfg.overstep_tolerance; the cache init leaves holds a portal only if the
\* track is inside its mask without slack.
C32_MaskTolerance ==
    /\ \A v \in Volumes :
           Collected(v) =
               {r \in {Intersected(s) :
                           s \in SeqRange(visit_neighborhood(v))} :
                    r.status = "inside"}
    /\ \A i \in 1..Len(cache) :
           cache[i].sf \in SurfaceIds =>
               update_candidate(cache[i], track).rec =
                   Intersected(cache[i].sf)
    /\ (last_call = "init" /\ ~oob =>
            \A i \in 1..Len(cache) :
                track.lat <= Surfaces[cache[i].sf].half +
                                 (IF Surfaces[cache[i].sf].is_portal
                                  THEN 0 ELSE mask_tolerance))

C32_Witness ==
    /\ last_call = "init"
    /\ ~oob
    /\ volume_index \in Volumes
    /\ \E i \in 1..Len(cache) :
           /\ ~Surfaces[cache[i].sf].is_portal
           /\ track.lat = Surfaces[cache[i].sf].half + mask_tolerance
    /\ \E s \in SeqRange(visit_neighborhood(volume_index)) :
           /\ Surfaces[s].is_portal
           /\ track.lat = Surfaces[s].half + mask_tolerance
           /\ \A i \in 1..Len(cache) : cache[i].sf # s
           /\ visit_mask(track, s, mask_tolerance,
                         overstep_tolerance).status = "inside"

\* the states abort and exit make of the stored state
Aborted == abort(CallState(default_intersection, 0))
Exited == exit(CallState(default_intersection, 0))

\* C33: abort sets status abort and heartbeat false, changes the trust level
\* and nothing else: the cache, both cursors, the volume index and the
\* direction stay as they were; exit sets status on_target and heartbeat
\* false and empties the cache with next = last = end; the heartbeat both
\* return is false. Stated for the two functions in every state and for the
\* steps in which an actor aborts or an update exits.
C33_AbortKeepsExitClears ==
    [][/\ Aborted.status = "abort"
       /\ Aborted.heartbeat = FALSE
       /\ Aborted.cache = cache
       /\ Aborted.next = next
       /\ Aborted.last = last
       /\ Aborted.volume_index = volume_index
       /\ Aborted.direction = direction
       /\ Exited.status = "on_target"
       /\ Exited.heartbeat = FALSE
       /\ Exited.cache = <<>>
       /\ Exited.next = Len(Exited.cache) + 1
       /\ Exited.last = Len(Exited.cache) + 1
       /\ (last_call' = "abort" =>
               /\ status' = "abort"
               /\ heartbeat' = FALSE
               /\ UNCHANGED <<cache, next, last, volume_index, direction>>)
       /\ (last_call' = "update" /\ outcome' = "exit" =>
               /\ status' = "on_target"
               /\ heartbeat' = FALSE
               /\ cache' = <<>>
               /\ next' = last'
               /\ last' = Len(cache') + 1
               /\ direction' = direction)]_vars

C33_Witness ==
    /\ last_call = "abort"
    /\ status = "abort"
    /\ ~heartbeat
    /\ Len(cache) >= 2
    /\ next > 1
    /\ next < last
    /\ volume_index = 1
    /\ Exited.cache = <<>>
    /\ Exited.next = 1

\* C34: when an update call returns, whatever its outcome and whatever the
\* trust level it was entered with, the trust level is full.
C34_UpdateEndsWithFullTrust ==
    last_call = "update" =>
        /\ trust_level = e_full
        /\ outcome \in {"full", "switch", "exit", "reinit", "abort"}

C34_Witness ==
    /\ last_call = "update"
    /\ outcome = "switch"
    /\ entry_trust = e_high
    /\ trust_level = e_full
    /\ status = "on_portal"
    /\ ~oob

\* C35: whenever update has returned heartbeat = true the cache is not
\* exhausted (next < last) and the record at next, whose path the stepper
\* reads as the distance to next, is a stored reachable record; this holds
\* for the update that switches to a new volume as well.
C35_AliveMeansCandidates ==
    (last_call = "update" /\ heartbeat) =>
        /\ next < last
        /\ next \in 1..Len(cache)
        /\ cache[next].status = "inside"
        /\ cache[next].path < numeric_max

\* C36: in every reachable state the cursors satisfy
\* begin <= next <= last <= end of the cache, so that n_candidates =
\* last - next is not negative and is_exhausted holds exactly when
\* next = last.
C36_CursorOrder ==
    /\ 1 <= next
    /\ next <= last
    /\ last <= Len(cache) + 1
    /\ n_candidates(CallState(default_intersection, 0)) >= 0
    /\ (is_exhausted(CallState(default_intersection, 0)) <=> next = last)

\* the cursors of the stored state are in order and the volume exists
CursorsInOrder ==
    /\ 1 <= next
    /\ next <= last
    /\ last <= Len(cache) + 1
    /\ volume_index \in Volumes

\* C37: init and update read the record at next only when next < last, so
\* that a call entered with the cursors in order reads no record outside the
\* cache (none at end): not when init finds no reachable surface, not when
\* a fair trust update invalidates every record, not when a high trust
\* update is entered with an exhausted cache.
C37_NoReadAtEnd ==
    [][(last_call' \in {"init", "update"} /\ CursorsInOrder) =>
          ~oob']_vars

\* C38: update ends with status abort only if the cache its
\* re-initialisation of the current volume built is exhausted; when that
\* re-initialisation leaves the track on a portal the call does not abort.
\* abort keeps the cache and the cursors, so both are read off the state the
\* call leaves: the record before next is the one init found the track on.
C38_AbortOnlyWhenExhausted ==
    (last_call = "update" /\ outcome = "abort" /\ ~oob) =>
        /\ status = "abort"
        /\ is_exhausted(CallState(default_intersection, 0))
        /\ ~(/\ next - 1 \in 1..Len(cache)
             /\ rec_is_portal(cache[next - 1])
             /\ is_on_object(cache[next - 1]))

\* C39: whenever the status is on_module or on_portal after a navigator
\* call, next lies behind the start of the cache, so that current = next - 1
\* is a stored record, and the surface of that record is a portal exactly
\* when the status is on_portal.
C39_CurrentIsStored ==
    (AfterCall /\ status \in {"on_module", "on_portal"}) =>
        /\ next > 1
        /\ next - 1 \in 1..Len(cache)
        /\ cache[next - 1].sf \in SurfaceIds
        /\ (Surfaces[cache[next - 1].sf].is_portal <=> status = "on_portal")

\* one more round of the loop from the track trk and the navigation state w:
\* advance by the distance to next, lower the trust to t, update
LoopRound(r, t) ==
    [trk |-> [r.trk EXCEPT
                  !.pos = @ + r.trk.dir * deref(r.w, r.w.next).path],
     w |-> update([fresh_call(r.w) EXCEPT !.trust_level = t],
                  [r.trk EXCEPT
                       !.pos = @ + r.trk.dir * deref(r.w, r.w.next).path])]

\* where the loop stands
Standing == [trk |-> track, w |-> TracedState]

\* two rounds of the loop lead back to the track and the navigation state
\* the loop stands at, with the heartbeat on all the way and a surface
\* reported on the way: the loop can repeat these rounds for ever
Cycling ==
    /\ last_call = "update"
    /\ heartbeat
    /\ InCache(Standing.w, next)
    /\ \E t \in {e_no_trust, e_fair, e_high} :
           /\ LoopRound(Standing, t).w.heartbeat
           /\ InCache(LoopRound(Standing, t).w,
                      LoopRound(Standing, t).w.next)
           /\ ~LoopRound(Standing, t).w.oob
           /\ LoopRound(LoopRound(Standing, t), t).w.heartbeat
           /\ ~LoopRound(LoopRound(Standing, t), t).w.oob
           /\ LoopRound(LoopRound(Standing, t), t).trk = track
           /\ StateOf(LoopRound(LoopRound(Standing, t), t).w) =
                  StateOf(Standing.w)
           /\ Len(LoopRound(LoopRound(Standing, t), t).w.trace) >
                  Len(object_trace)

\* C40: in the toy detector, whose volumes are closed by portals and whose
\* outer portal leads out of the detector, the loop init, then (advance by
\* the distance to next, lower the trust, update) repeated, for a straight
\* track comes to heartbeat = false with status on_target or abort: a state
\* without heartbeat after a call has one of these two, and the loop reaches
\* no state from which its rounds lead back to the same state, reporting the
\* same surface over and over or going to and fro between volumes.
C40_LoopTerminates ==
    /\ (last_call \in {"init", "update"} /\ ~heartbeat =>
            status \in {"on_target", "abort"})
    /\ ~Cycling

====
